---- MODULE Spec2Model ----
(***************************************************************************)
(* Model of the code-editor / diff-editor wrapper components               *)
(* (projects/code-editor/code-editor.ts and diff-editor.ts).               *)
(*                                                                         *)
(* Strings that the code inspects character by character (document        *)
(* contents, language names) are sequences of one-character strings.       *)
(* Opaque values (theme objects, extensions, callbacks) are TLA+ strings.  *)
(* An Extension is a sequence of Ext records; the empty array [] is <<>>.  *)
(***************************************************************************)
EXTENDS Integers, Sequences, FiniteSets, TLC

VARIABLES host, ce, de, op

vars == <<host, ce, de, op>>

(***************************************************************************)
(* Bounds                                                                  *)
(***************************************************************************)
MaxLen == 1        \* longest document / written value explored
MaxLangs == 2      \* longest language registry explored
MaxLoads == 2      \* most language loads pending at once
MaxDeviations == 2 \* most inputs off their default, and loads pending, at once

(***************************************************************************)
(* Strings                                                                 *)
(***************************************************************************)
UpperCase == <<"A","B","C","D","E","F","G","H","I","J","K","L","M",
               "N","O","P","Q","R","S","T","U","V","W","X","Y","Z">>
LowerCase == <<"a","b","c","d","e","f","g","h","i","j","k","l","m",
               "n","o","p","q","r","s","t","u","v","w","x","y","z">>

\* String.prototype.toLowerCase on one character
toLowerChar(c) ==
  IF \E i \in 1..Len(UpperCase) : UpperCase[i] = c
  THEN LowerCase[CHOOSE i \in 1..Len(UpperCase) : UpperCase[i] = c]
  ELSE c

toLowerCase(str) == [i \in 1..Len(str) |-> toLowerChar(str[i])]

DocChars == {"a", "b"}

RECURSIVE StringsUpTo(_)
StringsUpTo(n) ==
  IF n = 0 THEN {<<>>}
  ELSE LET shorter == StringsUpTo(n - 1)
       IN shorter \cup {Append(str, c) : str \in shorter, c \in DocChars}

\* the document contents and written values explored
Docs == StringsUpTo(MaxLen)

(***************************************************************************)
(* The editing engine as the wrappers use it: a view holds a document, a   *)
(* base (root) extension list and the current content of each compartment; *)
(* a transaction carries one change, effects and annotations.              *)
(***************************************************************************)
Ext(e, a) == [ext |-> e, arg |-> a]

\* sequencing of statements: F applied to the value of e
Then(e, F(_)) == CHOOSE r \in {F(x) : x \in {e}} : TRUE

B(b) == IF b THEN "true" ELSE "false"

NoView == [status |-> "undefined", doc |-> <<>>, base |-> <<>>, conf |-> <<>>]

NoChanges == [from |-> 0, to |-> 0, insert |-> <<>>]

Transaction(changes, effects, annotations) ==
  [changes |-> changes, effects |-> effects, annotations |-> annotations]

\* ChangeSet.empty is false as soon as a range is replaced or text inserted
docChanged(tr) == tr.changes.from # tr.changes.to \/ tr.changes.insert # <<>>

\* the document after the change {from, to, insert}
applyChanges(doc, c) ==
  SubSeq(doc, 1, c.from) \o c.insert \o SubSeq(doc, c.to + 1, Len(doc))

\* compartments named by the compartment instances of a base extension list
compartmentsOf(base) ==
  {base[i].arg : i \in {j \in 1..Len(base) : base[j].ext = "compartment"}}

\* EditorState.create({doc, extensions}): every compartment holds its inner []
createView(doc, extensions) ==
  [status |-> "live", doc |-> doc, base |-> extensions,
   conf |-> [c \in compartmentsOf(extensions) |-> <<>>]]

\* one effect applied to the configuration: a compartment reconfigure sets
\* that compartment's content; a root reconfigure replaces the base and
\* re-resolves it, each compartment instance of the new base keeping the
\* content it currently has
applyEffect(view, e) ==
  IF e.type = "compartment"
  THEN IF e.compartment \in DOMAIN view.conf
       THEN [view EXCEPT !.conf[e.compartment] = e.extension]
       ELSE view
  ELSE [view EXCEPT
          !.base = e.extension,
          !.conf = [c \in compartmentsOf(e.extension) |->
                      IF c \in DOMAIN view.conf THEN view.conf[c] ELSE <<>>]]

RECURSIVE applyEffects(_, _)
applyEffects(view, effects) ==
  IF effects = <<>> THEN view
  ELSE applyEffects(applyEffect(view, Head(effects)), Tail(effects))

\* the view after a transaction: the new document and configuration
updateView(view, tr) ==
  applyEffects([view EXCEPT !.doc = applyChanges(view.doc, tr.changes)], tr.effects)

hasListener(view) ==
  \E i \in 1..Len(view.base) : view.base[i].ext = "updateListener"

(***************************************************************************)
(* CodeEditor                                                              *)
(***************************************************************************)
Compartments ==
  <<"_editableConf", "_readonlyConf", "_themeConf", "_placeholderConf",
    "_indentWithTabConf", "_indentUnitConf", "_lineWrappingConf",
    "_highlightWhitespaceConf", "_languageConf">>

\* a LanguageDescription: name, aliases, and the support its load() resolves to
LanguageDescription(name, alias, support) ==
  [name |-> name, alias |-> alias, support |-> support]

null == LanguageDescription(<<>>, <<>>, "null")

\* the object after construction: input defaults, no view, the no-op callback;
\* thrown, dispatched, change, called and console record what the handler
\* that ran last raised, dispatched, emitted, called back and logged
CodeEditor ==
  [value |-> <<>>, disabled |-> FALSE, readonly |-> FALSE, theme |-> "light",
   placeholder |-> "", indentWithTab |-> FALSE, indentUnit |-> "",
   lineWrapping |-> FALSE, highlightWhitespace |-> FALSE,
   languages |-> <<>>, language |-> <<>>, setup |-> "basic", extensions |-> <<>>,
   _onChange |-> "noop",
   view |-> NoView,
   loads |-> <<>>,
   thrown |-> FALSE, dispatched |-> <<>>, change |-> <<>>, called |-> <<>>,
   console |-> <<>>]

\* a handler starts with nothing raised, dispatched, emitted, called or logged
enter(s) ==
  [s EXCEPT !.thrown = FALSE, !.dispatched = <<>>, !.change = <<>>,
            !.called = <<>>, !.console = <<>>]

External == "External"
addToHistory == "addToHistory=false"
userEvent == "userEvent"

\* the listener with the change event left out
CodeEditor__updateListener_NoEmit(s, tr) ==
  IF docChanged(tr) /\ External \notin tr.annotations
  THEN [s EXCEPT !.called = Append(@, [fn |-> s._onChange, value |-> s.view.doc])]
  ELSE s

CodeEditor__updateListener(s, tr) ==
  IF docChanged(tr) /\ External \notin tr.annotations
  THEN LET value == s.view.doc
       IN [s EXCEPT !.called = Append(@, [fn |-> s._onChange, value |-> value]),
                    !.change = Append(@, value)]
  ELSE s

\* this.view.dispatch(tr): a TypeError while this.view is undefined; a
\* destroyed view takes the new state and notifies nobody
CodeEditor_dispatch(s, tr) ==
  IF s.thrown THEN s
  ELSE IF s.view.status = "undefined" THEN [s EXCEPT !.thrown = TRUE]
  ELSE Then([s EXCEPT !.view = updateView(@, tr), !.dispatched = Append(@, tr)],
            LAMBDA t : IF s.view.status = "live" /\ hasListener(t.view)
                       THEN CodeEditor__updateListener(t, tr)
                       ELSE t)

CodeEditor__getAllExtensions(s) ==
  <<Ext("updateListener", "")>>
  \o [i \in 1..Len(Compartments) |-> Ext("compartment", Compartments[i])]
  \o (IF s.setup = "basic" THEN <<Ext("basicSetup", "")>>
      ELSE IF s.setup = "minimal" THEN <<Ext("minimalSetup", "")>>
      ELSE <<>>)
  \o s.extensions

\* setValue inserting at the start instead of replacing the whole document
CodeEditor_setValue_Insert(s, value) ==
  CodeEditor_dispatch(s,
    Transaction([from |-> 0, to |-> 0, insert |-> value], <<>>, {addToHistory}))

CodeEditor_setValue(s, value) ==
  CodeEditor_dispatch(s,
    Transaction([from |-> 0, to |-> Len(s.view.doc), insert |-> value],
                <<>>, {addToHistory}))

CodeEditor__dispatchEffects(s, effects) ==
  CodeEditor_dispatch(s, Transaction(NoChanges, effects, {}))

reconfigure(compartment, extension) ==
  [type |-> "compartment", compartment |-> compartment, extension |-> extension]

\* setExtensions appending to the root set instead of replacing it
CodeEditor_setExtensions_Append(s, value) ==
  CodeEditor__dispatchEffects(s,
    <<[type |-> "reconfigure", compartment |-> "", extension |-> s.view.base \o value]>>)

CodeEditor_setExtensions(s, value) ==
  CodeEditor__dispatchEffects(s,
    <<[type |-> "reconfigure", compartment |-> "", extension |-> value]>>)

CodeEditor_setEditable(s, value) ==
  CodeEditor__dispatchEffects(s,
    <<reconfigure("_editableConf", <<Ext("editable", B(value))>>)>>)

\* setReadonly reconfiguring the editable compartment
CodeEditor_setReadonly_Editable(s, value) ==
  CodeEditor__dispatchEffects(s,
    <<reconfigure("_editableConf", <<Ext("readOnly", B(value))>>)>>)

CodeEditor_setReadonly(s, value) ==
  CodeEditor__dispatchEffects(s,
    <<reconfigure("_readonlyConf", <<Ext("readOnly", B(value))>>)>>)

CodeEditor_setTheme(s, value) ==
  CodeEditor__dispatchEffects(s,
    <<reconfigure("_themeConf",
        IF value = "light" THEN <<>>
        ELSE IF value = "dark" THEN <<Ext("oneDark", "")>>
        ELSE <<Ext("theme", value)>>)>>)

CodeEditor_setPlaceholder(s, value) ==
  CodeEditor__dispatchEffects(s,
    <<reconfigure("_placeholderConf",
        IF value # "" THEN <<Ext("placeholder", value)>> ELSE <<>>)>>)

CodeEditor_setIndentWithTab(s, value) ==
  CodeEditor__dispatchEffects(s,
    <<reconfigure("_indentWithTabConf",
        IF value THEN <<Ext("keymap", "indentWithTab")>> ELSE <<>>)>>)

CodeEditor_setIndentUnit(s, value) ==
  CodeEditor__dispatchEffects(s,
    <<reconfigure("_indentUnitConf",
        IF value # "" THEN <<Ext("indentUnit", value)>> ELSE <<>>)>>)

CodeEditor_setLineWrapping(s, value) ==
  CodeEditor__dispatchEffects(s,
    <<reconfigure("_lineWrappingConf",
        IF value THEN <<Ext("lineWrapping", "")>> ELSE <<>>)>>)

CodeEditor_setHighlightWhitespace(s, value) ==
  CodeEditor__dispatchEffects(s,
    <<reconfigure("_highlightWhitespaceConf",
        IF value THEN <<Ext("highlightWhitespace", "")>> ELSE <<>>)>>)

plaintext == <<"p","l","a","i","n","t","e","x","t">>

\* the inner loop of _findLanguage over [lang.name, ...lang.alias]
RECURSIVE aliasMatches(_, _, _)
aliasMatches(aliases, name, j) ==
  IF j > Len(aliases) THEN FALSE
  ELSE IF toLowerCase(name) = toLowerCase(aliases[j]) THEN TRUE
  ELSE aliasMatches(aliases, name, j + 1)

\* the outer loop of _findLanguage over this.languages()
RECURSIVE findLanguageFrom(_, _, _)
findLanguageFrom(languages, name, i) ==
  IF i > Len(languages) THEN null
  ELSE IF aliasMatches(<<languages[i].name>> \o languages[i].alias, name, 1)
       THEN languages[i]
       ELSE findLanguageFrom(languages, name, i + 1)

\* _findLanguage comparing the canonical names only
CodeEditor__findLanguage_NameOnly(languages, name) ==
  findLanguageFrom([i \in 1..Len(languages) |-> [languages[i] EXCEPT !.alias = <<>>]],
                   name, 1)

\* the value _findLanguage returns
CodeEditor__findLanguage(languages, name) == findLanguageFrom(languages, name, 1)

\* languages.map(lang => lang.name).join(', ')
RECURSIVE joinNames(_, _)
joinNames(languages, i) ==
  IF i > Len(languages) THEN <<>>
  ELSE IF i = Len(languages) THEN languages[i].name
  ELSE languages[i].name \o <<",", " ">> \o joinNames(languages, i + 1)

\* the diagnostics _findLanguage logs when it returns null
CodeEditor__findLanguage_console(s, name) ==
  IF CodeEditor__findLanguage(s.languages, name) = null
  THEN [s EXCEPT !.console = @ \o
          <<[level |-> "error", message |-> "Language not found:", text |-> name],
            [level |-> "info", message |-> "Supported language names:",
             text |-> joinNames(s.languages, 1)]>>]
  ELSE s

\* setLanguage clearing the slot when the language is not found
CodeEditor_setLanguage_Clear(s, lang) ==
  IF lang = <<>> \/ lang = plaintext
     \/ CodeEditor__findLanguage(s.languages, lang) = null
  THEN CodeEditor__dispatchEffects(
         CodeEditor__findLanguage_console(s, lang),
         <<reconfigure("_languageConf", <<>>)>>)
  ELSE [s EXCEPT !.loads =
          Append(@, CodeEditor__findLanguage(s.languages, lang).support)]

\* setLanguage cancelling the pending loads when it clears the slot
CodeEditor_setLanguage_Cancel(s, lang) ==
  IF lang = <<>> \/ lang = plaintext
  THEN CodeEditor__dispatchEffects([s EXCEPT !.loads = <<>>],
                                   <<reconfigure("_languageConf", <<>>)>>)
  ELSE IF s.thrown THEN s
  ELSE IF Len(s.languages) = 0
  THEN IF s.view.status # "undefined"
       THEN [s EXCEPT !.console = Append(@,
               [level |-> "error",
                message |-> "No supported languages. Please set the languages prop at first.",
                text |-> <<>>])]
       ELSE s
  ELSE Then(CodeEditor__findLanguage(s.languages, lang), LAMBDA langDesc :
       Then(CodeEditor__findLanguage_console(s, lang), LAMBDA t :
         IF langDesc = null THEN t
         ELSE [t EXCEPT !.loads = Append(@, langDesc.support)]))

\* a started load stays pending in s.loads until it completes
CodeEditor_setLanguage(s, lang) ==
  IF lang = <<>> \/ lang = plaintext
  THEN CodeEditor__dispatchEffects(s, <<reconfigure("_languageConf", <<>>)>>)
  ELSE IF s.thrown THEN s
  ELSE IF Len(s.languages) = 0
  THEN IF s.view.status # "undefined"
       THEN [s EXCEPT !.console = Append(@,
               [level |-> "error",
                message |-> "No supported languages. Please set the languages prop at first.",
                text |-> <<>>])]
       ELSE s
  ELSE Then(CodeEditor__findLanguage(s.languages, lang), LAMBDA langDesc :
       Then(CodeEditor__findLanguage_console(s, lang), LAMBDA t :
         IF langDesc = null THEN t
         ELSE [t EXCEPT !.loads = Append(@, langDesc.support)]))

\* a completion that installs its language only if no later request is pending
CodeEditor_setLanguage_then_Latest(s, i) ==
  IF i = Len(s.loads)
  THEN CodeEditor__dispatchEffects(
         [s EXCEPT !.loads = SubSeq(@, 1, i - 1)],
         <<reconfigure("_languageConf", <<Ext("language", s.loads[i])>>)>>)
  ELSE [s EXCEPT !.loads = SubSeq(@, 1, i - 1) \o SubSeq(@, i + 1, Len(@))]

\* the completion of pending load i: the .then callback of setLanguage
CodeEditor_setLanguage_then(s, i) ==
  CodeEditor__dispatchEffects(
    [s EXCEPT !.loads = SubSeq(@, 1, i - 1) \o SubSeq(@, i + 1, Len(@))],
    <<reconfigure("_languageConf", <<Ext("language", s.loads[i])>>)>>)

CodeEditor_ngOnChanges(s, changes) ==
  IF s.view.status = "undefined" THEN s
  ELSE
    Then(IF "value" \in changes THEN CodeEditor_setValue(s, s.value) ELSE s,
    LAMBDA s1 :
    Then(IF "disabled" \in changes THEN CodeEditor_setEditable(s1, ~s1.disabled) ELSE s1,
    LAMBDA s2 :
    Then(IF "readonly" \in changes THEN CodeEditor_setReadonly(s2, s2.readonly) ELSE s2,
    LAMBDA s3 :
    Then(IF "theme" \in changes THEN CodeEditor_setTheme(s3, s3.theme) ELSE s3,
    LAMBDA s4 :
    Then(IF "placeholder" \in changes
         THEN CodeEditor_setPlaceholder(s4, s4.placeholder) ELSE s4,
    LAMBDA s5 :
    Then(IF "indentWithTab" \in changes
         THEN CodeEditor_setIndentWithTab(s5, s5.indentWithTab) ELSE s5,
    LAMBDA s6 :
    Then(IF "indentUnit" \in changes
         THEN CodeEditor_setIndentUnit(s6, s6.indentUnit) ELSE s6,
    LAMBDA s7 :
    Then(IF "lineWrapping" \in changes
         THEN CodeEditor_setLineWrapping(s7, s7.lineWrapping) ELSE s7,
    LAMBDA s8 :
    Then(IF "highlightWhitespace" \in changes
         THEN CodeEditor_setHighlightWhitespace(s8, s8.highlightWhitespace) ELSE s8,
    LAMBDA s9 :
    Then(IF "language" \in changes THEN CodeEditor_setLanguage(s9, s9.language) ELSE s9,
    LAMBDA s10 :
      IF "setup" \in changes \/ "extensions" \in changes
      THEN CodeEditor_setExtensions(s10, CodeEditor__getAllExtensions(s10))
      ELSE s10))))))))))

\* ngOnInit creating the document from the default value
CodeEditor_ngOnInit_Defaults(s) ==
  Then([s EXCEPT !.view = createView(<<>>, CodeEditor__getAllExtensions(s))],
  LAMBDA s0 : Then(CodeEditor_setEditable(s0, ~s0.disabled),
  LAMBDA s1 : Then(CodeEditor_setReadonly(s1, s1.readonly),
  LAMBDA s2 : Then(CodeEditor_setTheme(s2, s2.theme),
  LAMBDA s3 : Then(CodeEditor_setPlaceholder(s3, s3.placeholder),
  LAMBDA s4 : Then(CodeEditor_setIndentWithTab(s4, s4.indentWithTab),
  LAMBDA s5 : Then(CodeEditor_setIndentUnit(s5, s5.indentUnit),
  LAMBDA s6 : Then(CodeEditor_setLineWrapping(s6, s6.lineWrapping),
  LAMBDA s7 : Then(CodeEditor_setHighlightWhitespace(s7, s7.highlightWhitespace),
  LAMBDA s8 : CodeEditor_setLanguage(s8, s8.language))))))))))

CodeEditor_ngOnInit(s) ==
  Then([s EXCEPT !.view = createView(s.value, CodeEditor__getAllExtensions(s))],
  LAMBDA s0 : Then(CodeEditor_setEditable(s0, ~s0.disabled),
  LAMBDA s1 : Then(CodeEditor_setReadonly(s1, s1.readonly),
  LAMBDA s2 : Then(CodeEditor_setTheme(s2, s2.theme),
  LAMBDA s3 : Then(CodeEditor_setPlaceholder(s3, s3.placeholder),
  LAMBDA s4 : Then(CodeEditor_setIndentWithTab(s4, s4.indentWithTab),
  LAMBDA s5 : Then(CodeEditor_setIndentUnit(s5, s5.indentUnit),
  LAMBDA s6 : Then(CodeEditor_setLineWrapping(s6, s6.lineWrapping),
  LAMBDA s7 : Then(CodeEditor_setHighlightWhitespace(s7, s7.highlightWhitespace),
  LAMBDA s8 : CodeEditor_setLanguage(s8, s8.language))))))))))

\* ngOnDestroy leaving the view alive
CodeEditor_ngOnDestroy_Keep(s) == s

\* this.view.destroy(): a TypeError while this.view is undefined
CodeEditor_ngOnDestroy(s) ==
  IF s.view.status = "undefined" THEN [s EXCEPT !.thrown = TRUE]
  ELSE [s EXCEPT !.view.status = "destroyed"]

\* writeValue keeping a value written before initialization for ngOnInit
CodeEditor_writeValue_Buffered(s, value) ==
  IF s.view.status # "undefined" THEN CodeEditor_setValue(s, value)
  ELSE [s EXCEPT !.value = value]

CodeEditor_writeValue(s, value) ==
  IF s.view.status # "undefined" THEN CodeEditor_setValue(s, value) ELSE s

CodeEditor_registerOnChange(s, fn) == [s EXCEPT !._onChange = fn]

\* setDisabledState recording the flag without reconfiguring the editable slot
CodeEditor_setDisabledState_FlagOnly(s, isDisabled) ==
  [s EXCEPT !.disabled = isDisabled]

CodeEditor_setDisabledState(s, isDisabled) ==
  Then([s EXCEPT !.disabled = isDisabled],
       LAMBDA s1 : CodeEditor_setEditable(s1, ~isDisabled))

\* an edit made in the editor by the user: a transaction that changes the
\* document and carries no External annotation
CodeEditor_userEdit(s, changes) ==
  CodeEditor_dispatch(s, Transaction(changes, <<>>, {userEvent}))

(***************************************************************************)
(* DiffEditor                                                              *)
(***************************************************************************)
DiffOptions ==
  {"orientation", "revertControls", "renderRevertControl", "highlightChanges",
   "gutter", "collapseUnchanged", "diffConfig"}

NoMergeView ==
  [status |-> "undefined", a |-> NoView, b |-> NoView,
   config |-> [o \in DiffOptions |-> "undefined"]]

\* the object after construction; called, originalValueChange and
\* modifiedValueChange record the callbacks and emissions of the last handler
DiffEditor ==
  [setup |-> "basic",
   originalValue |-> <<>>, originalExtensions |-> <<>>,
   modifiedValue |-> <<>>, modifiedExtensions |-> <<>>,
   orientation |-> "undefined", revertControls |-> "undefined",
   renderRevertControl |-> "undefined", highlightChanges |-> TRUE,
   gutter |-> TRUE, disabled |-> FALSE, collapseUnchanged |-> "undefined",
   diffConfig |-> "undefined",
   _onChange |-> "noop",
   mergeView |-> NoMergeView,
   thrown |-> FALSE, dispatched |-> <<>>, called |-> <<>>,
   originalValueChange |-> <<>>, modifiedValueChange |-> <<>>]

enterDiff(s) ==
  [s EXCEPT !.thrown = FALSE, !.dispatched = <<>>, !.called = <<>>,
            !.originalValueChange = <<>>, !.modifiedValueChange = <<>>]

\* the listener reporting the model values as they were before the edit
DiffEditor__updateListener_Stale(s, editor, tr) ==
  IF docChanged(tr) /\ External \notin tr.annotations
  THEN LET value == s.mergeView[editor].doc
           called == Append(s.called, [fn |-> s._onChange,
                       value |-> [original |-> s.originalValue,
                                  modified |-> s.modifiedValue]])
       IN IF editor = "a"
          THEN [s EXCEPT !.called = called, !.originalValue = value,
                         !.originalValueChange = Append(@, value)]
          ELSE [s EXCEPT !.called = called, !.modifiedValue = value,
                         !.modifiedValueChange = Append(@, value)]
  ELSE s

DiffEditor__updateListener(s, editor, tr) ==
  IF docChanged(tr) /\ External \notin tr.annotations
  THEN LET value == s.mergeView[editor].doc
       IN IF editor = "a"
          THEN [s EXCEPT
                  !.called = Append(@, [fn |-> s._onChange,
                     value |-> [original |-> value, modified |-> s.modifiedValue]]),
                  !.originalValue = value,
                  !.originalValueChange = Append(@, value)]
          ELSE [s EXCEPT
                  !.called = Append(@, [fn |-> s._onChange,
                     value |-> [original |-> s.originalValue, modified |-> value]]),
                  !.modifiedValue = value,
                  !.modifiedValueChange = Append(@, value)]
  ELSE s

\* this.mergeView?.[editor].dispatch(tr): skipped while mergeView is undefined
DiffEditor_dispatch(s, editor, tr) ==
  IF s.mergeView.status = "undefined" THEN s
  ELSE Then([s EXCEPT !.mergeView[editor] = updateView(@, tr),
                       !.dispatched = Append(@, [editor |-> editor, tr |-> tr])],
            LAMBDA t : IF s.mergeView.status = "live" /\ hasListener(t.mergeView[editor])
                       THEN DiffEditor__updateListener(t, editor, tr)
                       ELSE t)

\* setValue marking its transaction External
DiffEditor_setValue_External(s, editor, value) ==
  DiffEditor_dispatch(s, editor,
    Transaction([from |-> 0, to |-> Len(s.mergeView[editor].doc), insert |-> value],
                <<>>, {External}))

DiffEditor_setValue(s, editor, value) ==
  DiffEditor_dispatch(s, editor,
    Transaction([from |-> 0, to |-> Len(s.mergeView[editor].doc), insert |-> value],
                <<>>, {}))

DiffEditor_setEditable(s, editor, value) ==
  DiffEditor_dispatch(s, editor,
    Transaction(NoChanges,
                <<reconfigure("_editableConf", <<Ext("editable", B(value))>>)>>, {}))

\* this.mergeView?.reconfigure({[option]: value})
MergeView_reconfigure(s, option, value) ==
  IF s.mergeView.status = "undefined" THEN s
  ELSE [s EXCEPT !.mergeView.config[option] = value]

\* both sides' editable slots, a then b
DiffEditor_setEditableBoth(s, value) ==
  Then(DiffEditor_setEditable(s, "a", value),
       LAMBDA s1 : DiffEditor_setEditable(s1, "b", value))

DiffEditor_ngOnChanges(s, changes) ==
  Then(IF "originalValue" \in changes
       THEN DiffEditor_setValue(s, "a", s.originalValue) ELSE s,
  LAMBDA s1 :
  Then(IF "modifiedValue" \in changes
       THEN DiffEditor_setValue(s1, "b", s1.modifiedValue) ELSE s1,
  LAMBDA s2 :
  Then(IF "orientation" \in changes
       THEN MergeView_reconfigure(s2, "orientation", s2.orientation) ELSE s2,
  LAMBDA s3 :
  Then(IF "revertControls" \in changes
       THEN MergeView_reconfigure(s3, "revertControls", s3.revertControls) ELSE s3,
  LAMBDA s4 :
  Then(IF "renderRevertControl" \in changes
       THEN MergeView_reconfigure(s4, "renderRevertControl", s4.renderRevertControl)
       ELSE s4,
  LAMBDA s5 :
  Then(IF "highlightChanges" \in changes
       THEN MergeView_reconfigure(s5, "highlightChanges", B(s5.highlightChanges))
       ELSE s5,
  LAMBDA s6 :
  Then(IF "gutter" \in changes
       THEN MergeView_reconfigure(s6, "gutter", B(s6.gutter)) ELSE s6,
  LAMBDA s7 :
  Then(IF "collapseUnchanged" \in changes
       THEN MergeView_reconfigure(s7, "collapseUnchanged", s7.collapseUnchanged)
       ELSE s7,
  LAMBDA s8 :
  Then(IF "diffConfig" \in changes
       THEN MergeView_reconfigure(s8, "diffConfig", s8.diffConfig) ELSE s8,
  LAMBDA s9 :
    IF "disabled" \in changes
    THEN DiffEditor_setEditableBoth(s9, ~s9.disabled)
    ELSE s9)))))))))

\* the extensions of one side of the merge view
DiffEditor_sideExtensions(s, editor) ==
  <<Ext("updateListener", editor), Ext("compartment", "_editableConf")>>
  \o (IF s.setup = "basic" THEN <<Ext("basicSetup", "")>>
      ELSE IF s.setup = "minimal" THEN <<Ext("minimalSetup", "")>>
      ELSE <<>>)
  \o (IF editor = "a" THEN s.originalExtensions ELSE s.modifiedExtensions)

DiffEditor_ngOnInit(s) ==
  Then([s EXCEPT !.mergeView =
               [status |-> "live",
                a |-> createView(s.originalValue, DiffEditor_sideExtensions(s, "a")),
                b |-> createView(s.modifiedValue, DiffEditor_sideExtensions(s, "b")),
                config |-> [orientation |-> s.orientation,
                            revertControls |-> s.revertControls,
                            renderRevertControl |-> s.renderRevertControl,
                            highlightChanges |-> B(s.highlightChanges),
                            gutter |-> B(s.gutter),
                            collapseUnchanged |-> s.collapseUnchanged,
                            diffConfig |-> s.diffConfig]]],
       LAMBDA s0 : DiffEditor_setEditableBoth(s0, ~s0.disabled))

\* this.mergeView?.destroy()
DiffEditor_ngOnDestroy(s) ==
  IF s.mergeView.status = "undefined" THEN s
  ELSE [s EXCEPT !.mergeView.status = "destroyed"]

\* value.object is FALSE for null and for anything that is not an object
DiffEditor_writeValue(s, value) ==
  IF s.mergeView.status # "undefined" /\ value.object
  THEN Then([s EXCEPT !.originalValue = value.original,
                      !.modifiedValue = value.modified],
       LAMBDA s1 : Then(DiffEditor_setValue(s1, "a", value.original),
       LAMBDA s2 : DiffEditor_setValue(s2, "b", value.modified)))
  ELSE s

DiffEditor_registerOnChange(s, fn) == [s EXCEPT !._onChange = fn]

DiffEditor_setDisabledState(s, isDisabled) ==
  Then([s EXCEPT !.disabled = isDisabled],
       LAMBDA s1 : DiffEditor_setEditableBoth(s1, ~isDisabled))

\* an edit made by the user in one side of the merge view
DiffEditor_userEdit(s, editor, changes) ==
  DiffEditor_dispatch(s, editor, Transaction(changes, <<>>, {userEvent}))

(***************************************************************************)
(* The environment: the values the host page binds and passes              *)
(***************************************************************************)
Themes == {"light", "dark", "custom"}
Placeholders == {"", "hint"}
IndentUnits == {"", "  "}
Setups == {"basic", "minimal", "null"}
ExtensionLists == {<<>>, <<Ext("custom", "extA")>>}
Callbacks == {"fn1", "fn2"}
Editors == {"a", "b"}

JavaScript ==
  LanguageDescription(<<"J","a","v","a","S","c","r","i","p","t">>,
                      <<<<"j","s">>>>, "javascript")
JScript == LanguageDescription(<<"J","S">>, <<>>, "jscript")
PlainText ==
  LanguageDescription(<<"P","l","a","i","n","t","e","x","t">>, <<<<"t","x","t">>>>,
                      "text")
LanguageDescriptions == {JavaScript, JScript, PlainText}

RECURSIVE RegistriesUpTo(_)
RegistriesUpTo(n) ==
  IF n = 0 THEN {<<>>}
  ELSE LET shorter == RegistriesUpTo(n - 1)
       IN shorter \cup {Append(r, d) : r \in shorter, d \in LanguageDescriptions}

Registries == RegistriesUpTo(MaxLangs)

\* the language names requested
LanguageNames ==
  {<<>>, plaintext, <<"P","l","a","i","n","t","e","x","t">>,
   <<"J","S">>, <<"j","a","v","a","s","c","r","i","p","t">>, <<"T","X","T">>,
   <<"j","s">>, <<"p","y">>}

\* the edits a user can make to doc: replace [from, to) by insert
UserEdits(doc) ==
  {c \in [from : 0..Len(doc), to : 0..Len(doc), insert : Docs] :
     /\ c.from <= c.to
     /\ c.from # c.to \/ c.insert # <<>>
     /\ Len(doc) - (c.to - c.from) + Len(c.insert) <= MaxLen}

\* the operation that ran last and its arguments
Op(name, keys, arg, text, text2) ==
  [name |-> name, keys |-> keys, arg |-> arg, text |-> text, text2 |-> text2]

\* the new values an input can take in a change notification: the framework
\* reports a plain input only when its bound value differs (any value counts
\* on the first notification and for two-way model inputs)
Choices(k, changes, D, cur, any) ==
  IF k \notin changes THEN {cur} ELSE IF any THEN D ELSE D \ {cur}

(***************************************************************************)
(* Actions on the mounted code-editor                                      *)
(***************************************************************************)
CE_ngOnInit ==
  /\ host = "code-editor" /\ ce.view.status = "undefined"
  /\ ce' = CodeEditor_ngOnInit(enter(ce))
  /\ op' = Op("CodeEditor.ngOnInit", {}, "", <<>>, <<>>)
  /\ UNCHANGED <<host, de>>

CE_ngOnDestroy ==
  /\ host = "code-editor" /\ ce.view.status = "live"
  /\ ce' = CodeEditor_ngOnDestroy(enter(ce))
  /\ op' = Op("CodeEditor.ngOnDestroy", {}, "", <<>>, <<>>)
  /\ UNCHANGED <<host, de>>

\* the framework writes the changed inputs, then calls ngOnChanges
CE_ngOnChanges(ChangeSets) ==
  /\ host = "code-editor" /\ ce.view.status # "destroyed"
  /\ \E changes \in ChangeSets :
     LET first == ce.view.status = "undefined" IN
     \E value \in Choices("value", changes, Docs, ce.value, first),
        disabled \in Choices("disabled", changes, BOOLEAN, ce.disabled, TRUE),
        readonly \in Choices("readonly", changes, BOOLEAN, ce.readonly, first),
        theme \in Choices("theme", changes, Themes, ce.theme, first),
        placeholder \in Choices("placeholder", changes, Placeholders, ce.placeholder, first),
        indentWithTab \in Choices("indentWithTab", changes, BOOLEAN, ce.indentWithTab, first),
        indentUnit \in Choices("indentUnit", changes, IndentUnits, ce.indentUnit, first),
        lineWrapping \in Choices("lineWrapping", changes, BOOLEAN, ce.lineWrapping, first),
        highlightWhitespace \in
          Choices("highlightWhitespace", changes, BOOLEAN, ce.highlightWhitespace, first),
        language \in Choices("language", changes, LanguageNames, ce.language, first),
        setup \in Choices("setup", changes, Setups, ce.setup, first),
        extensions \in Choices("extensions", changes, ExtensionLists, ce.extensions, first) :
       /\ ("language" \in changes => Len(ce.loads) < MaxLoads)
       /\ ce' = CodeEditor_ngOnChanges(
                  enter([ce EXCEPT !.value = value, !.disabled = disabled,
                                   !.readonly = readonly, !.theme = theme,
                                   !.placeholder = placeholder,
                                   !.indentWithTab = indentWithTab,
                                   !.indentUnit = indentUnit,
                                   !.lineWrapping = lineWrapping,
                                   !.highlightWhitespace = highlightWhitespace,
                                   !.language = language, !.setup = setup,
                                   !.extensions = extensions]),
                  changes)
       /\ op' = Op("CodeEditor.ngOnChanges", changes, "", value, language)
  /\ UNCHANGED <<host, de>>

\* the languages input is bound; ngOnChanges has no branch for it
CE_languages(Rs) ==
  /\ host = "code-editor" /\ ce.view.status # "destroyed"
  /\ \E languages \in Rs \ {ce.languages} :
       /\ ce' = CodeEditor_ngOnChanges(enter([ce EXCEPT !.languages = languages]),
                                       {"languages"})
       /\ op' = Op("CodeEditor.ngOnChanges", {"languages"}, "", <<>>, <<>>)
  /\ UNCHANGED <<host, de>>

CE_writeValue ==
  /\ host = "code-editor" /\ ce.view.status # "destroyed"
  /\ \E value \in Docs :
       /\ ce' = CodeEditor_writeValue(enter(ce), value)
       /\ op' = Op("CodeEditor.writeValue", {}, "", value, <<>>)
  /\ UNCHANGED <<host, de>>

CE_registerOnChange ==
  /\ host = "code-editor" /\ ce.view.status # "destroyed"
  /\ \E fn \in Callbacks :
       /\ ce' = CodeEditor_registerOnChange(enter(ce), fn)
       /\ op' = Op("CodeEditor.registerOnChange", {}, fn, <<>>, <<>>)
  /\ UNCHANGED <<host, de>>

CE_setDisabledState ==
  /\ host = "code-editor" /\ ce.view.status # "destroyed"
  /\ \E isDisabled \in BOOLEAN :
       /\ ce' = CodeEditor_setDisabledState(enter(ce), isDisabled)
       /\ op' = Op("CodeEditor.setDisabledState", {}, B(isDisabled), <<>>, <<>>)
  /\ UNCHANGED <<host, de>>

CE_setValue ==
  /\ host = "code-editor" /\ ce.view.status # "destroyed"
  /\ \E value \in Docs :
       /\ ce' = CodeEditor_setValue(enter(ce), value)
       /\ op' = Op("CodeEditor.setValue", {}, "", value, <<>>)
  /\ UNCHANGED <<host, de>>

CE_userEdit ==
  /\ host = "code-editor" /\ ce.view.status = "live"
  /\ \E changes \in UserEdits(ce.view.doc) :
       /\ ce' = CodeEditor_userEdit(enter(ce), changes)
       /\ op' = Op("CodeEditor.userEdit", {}, "", changes.insert, <<>>)
  /\ UNCHANGED <<host, de>>

\* direct calls of the public field setters
CE_setEditable ==
  /\ host = "code-editor" /\ ce.view.status # "destroyed"
  /\ \E value \in BOOLEAN :
       /\ ce' = CodeEditor_setEditable(enter(ce), value)
       /\ op' = Op("CodeEditor.setEditable", {}, B(value), <<>>, <<>>)
  /\ UNCHANGED <<host, de>>

CE_setReadonly ==
  /\ host = "code-editor" /\ ce.view.status # "destroyed"
  /\ \E value \in BOOLEAN :
       /\ ce' = CodeEditor_setReadonly(enter(ce), value)
       /\ op' = Op("CodeEditor.setReadonly", {}, B(value), <<>>, <<>>)
  /\ UNCHANGED <<host, de>>

CE_setTheme ==
  /\ host = "code-editor" /\ ce.view.status # "destroyed"
  /\ \E value \in Themes :
       /\ ce' = CodeEditor_setTheme(enter(ce), value)
       /\ op' = Op("CodeEditor.setTheme", {}, value, <<>>, <<>>)
  /\ UNCHANGED <<host, de>>

CE_setPlaceholder ==
  /\ host = "code-editor" /\ ce.view.status # "destroyed"
  /\ \E value \in Placeholders :
       /\ ce' = CodeEditor_setPlaceholder(enter(ce), value)
       /\ op' = Op("CodeEditor.setPlaceholder", {}, value, <<>>, <<>>)
  /\ UNCHANGED <<host, de>>

CE_setIndentWithTab ==
  /\ host = "code-editor" /\ ce.view.status # "destroyed"
  /\ \E value \in BOOLEAN :
       /\ ce' = CodeEditor_setIndentWithTab(enter(ce), value)
       /\ op' = Op("CodeEditor.setIndentWithTab", {}, B(value), <<>>, <<>>)
  /\ UNCHANGED <<host, de>>

CE_setIndentUnit ==
  /\ host = "code-editor" /\ ce.view.status # "destroyed"
  /\ \E value \in IndentUnits :
       /\ ce' = CodeEditor_setIndentUnit(enter(ce), value)
       /\ op' = Op("CodeEditor.setIndentUnit", {}, value, <<>>, <<>>)
  /\ UNCHANGED <<host, de>>

CE_setLineWrapping ==
  /\ host = "code-editor" /\ ce.view.status # "destroyed"
  /\ \E value \in BOOLEAN :
       /\ ce' = CodeEditor_setLineWrapping(enter(ce), value)
       /\ op' = Op("CodeEditor.setLineWrapping", {}, B(value), <<>>, <<>>)
  /\ UNCHANGED <<host, de>>

CE_setHighlightWhitespace ==
  /\ host = "code-editor" /\ ce.view.status # "destroyed"
  /\ \E value \in BOOLEAN :
       /\ ce' = CodeEditor_setHighlightWhitespace(enter(ce), value)
       /\ op' = Op("CodeEditor.setHighlightWhitespace", {}, B(value), <<>>, <<>>)
  /\ UNCHANGED <<host, de>>

\* setExtensions is called with a root set built as _getAllExtensions builds it
CE_setExtensions ==
  /\ host = "code-editor" /\ ce.view.status # "destroyed"
  /\ \E setup \in Setups, extensions \in ExtensionLists :
       /\ ce' = CodeEditor_setExtensions(enter(ce),
                  CodeEditor__getAllExtensions(
                    [ce EXCEPT !.setup = setup, !.extensions = extensions]))
       /\ op' = Op("CodeEditor.setExtensions",
                   {extensions[i].arg : i \in 1..Len(extensions)}, setup, <<>>, <<>>)
  /\ UNCHANGED <<host, de>>

CE_setLanguage ==
  /\ host = "code-editor" /\ ce.view.status # "destroyed"
  /\ Len(ce.loads) < MaxLoads
  /\ \E lang \in LanguageNames :
       /\ ce' = CodeEditor_setLanguage(enter(ce), lang)
       /\ op' = Op("CodeEditor.setLanguage", {}, "", lang, <<>>)
  /\ UNCHANGED <<host, de>>

\* a pending language load completes and its callback runs
CE_setLanguage_then ==
  /\ host = "code-editor"
  /\ \E i \in 1..Len(ce.loads) :
       /\ ce' = CodeEditor_setLanguage_then(enter(ce), i)
       /\ op' = Op("CodeEditor.setLanguage.then", {}, ce.loads[i], <<>>, <<>>)
  /\ UNCHANGED <<host, de>>

(***************************************************************************)
(* Actions on the mounted diff-editor                                      *)
(***************************************************************************)
Orientations == {"undefined", "a-b", "b-a"}
RevertControlses == {"undefined", "a-to-b", "b-to-a"}
Optionals == {"undefined", "given"}

\* the values passed to writeValue: null and {original, modified} pairs
DiffEditorModels ==
  {[object |-> FALSE, original |-> <<>>, modified |-> <<>>]}
  \cup [object : {TRUE}, original : Docs, modified : Docs]

DE_ngOnInit ==
  /\ host = "diff-editor" /\ de.mergeView.status = "undefined"
  /\ de' = DiffEditor_ngOnInit(enterDiff(de))
  /\ op' = Op("DiffEditor.ngOnInit", {}, "", <<>>, <<>>)
  /\ UNCHANGED <<host, ce>>

DE_ngOnDestroy ==
  /\ host = "diff-editor" /\ de.mergeView.status = "live"
  /\ de' = DiffEditor_ngOnDestroy(enterDiff(de))
  /\ op' = Op("DiffEditor.ngOnDestroy", {}, "", <<>>, <<>>)
  /\ UNCHANGED <<host, ce>>

DE_ngOnChanges(ChangeSets) ==
  /\ host = "diff-editor" /\ de.mergeView.status # "destroyed"
  /\ \E changes \in ChangeSets :
     LET first == de.mergeView.status = "undefined" IN
     \E originalValue \in Choices("originalValue", changes, Docs, de.originalValue, TRUE),
        modifiedValue \in Choices("modifiedValue", changes, Docs, de.modifiedValue, TRUE),
        orientation \in Choices("orientation", changes, Orientations, de.orientation, first),
        revertControls \in
          Choices("revertControls", changes, RevertControlses, de.revertControls, first),
        renderRevertControl \in
          Choices("renderRevertControl", changes, Optionals, de.renderRevertControl, first),
        highlightChanges \in
          Choices("highlightChanges", changes, BOOLEAN, de.highlightChanges, first),
        gutter \in Choices("gutter", changes, BOOLEAN, de.gutter, first),
        collapseUnchanged \in
          Choices("collapseUnchanged", changes, Optionals, de.collapseUnchanged, first),
        diffConfig \in Choices("diffConfig", changes, Optionals, de.diffConfig, first),
        disabled \in Choices("disabled", changes, BOOLEAN, de.disabled, TRUE) :
       /\ de' = DiffEditor_ngOnChanges(
                  enterDiff([de EXCEPT !.originalValue = originalValue,
                                       !.modifiedValue = modifiedValue,
                                       !.orientation = orientation,
                                       !.revertControls = revertControls,
                                       !.renderRevertControl = renderRevertControl,
                                       !.highlightChanges = highlightChanges,
                                       !.gutter = gutter,
                                       !.collapseUnchanged = collapseUnchanged,
                                       !.diffConfig = diffConfig,
                                       !.disabled = disabled]),
                  changes)
       /\ op' = Op("DiffEditor.ngOnChanges", changes, "", originalValue, modifiedValue)
  /\ UNCHANGED <<host, ce>>

DE_writeValue ==
  /\ host = "diff-editor" /\ de.mergeView.status # "destroyed"
  /\ \E value \in DiffEditorModels :
       /\ de' = DiffEditor_writeValue(enterDiff(de), value)
       /\ op' = Op("DiffEditor.writeValue", {}, B(value.object),
                   value.original, value.modified)
  /\ UNCHANGED <<host, ce>>

DE_registerOnChange ==
  /\ host = "diff-editor" /\ de.mergeView.status # "destroyed"
  /\ \E fn \in Callbacks :
       /\ de' = DiffEditor_registerOnChange(enterDiff(de), fn)
       /\ op' = Op("DiffEditor.registerOnChange", {}, fn, <<>>, <<>>)
  /\ UNCHANGED <<host, ce>>

DE_setDisabledState ==
  /\ host = "diff-editor" /\ de.mergeView.status # "destroyed"
  /\ \E isDisabled \in BOOLEAN :
       /\ de' = DiffEditor_setDisabledState(enterDiff(de), isDisabled)
       /\ op' = Op("DiffEditor.setDisabledState", {}, B(isDisabled), <<>>, <<>>)
  /\ UNCHANGED <<host, ce>>

DE_setValue ==
  /\ host = "diff-editor" /\ de.mergeView.status # "destroyed"
  /\ \E editor \in Editors, value \in Docs :
       /\ de' = DiffEditor_setValue(enterDiff(de), editor, value)
       /\ op' = Op("DiffEditor.setValue", {editor}, "", value, <<>>)
  /\ UNCHANGED <<host, ce>>

DE_setEditable ==
  /\ host = "diff-editor" /\ de.mergeView.status # "destroyed"
  /\ \E editor \in Editors, value \in BOOLEAN :
       /\ de' = DiffEditor_setEditable(enterDiff(de), editor, value)
       /\ op' = Op("DiffEditor.setEditable", {editor}, B(value), <<>>, <<>>)
  /\ UNCHANGED <<host, ce>>

DE_userEdit ==
  /\ host = "diff-editor" /\ de.mergeView.status = "live"
  /\ \E editor \in Editors :
     \E changes \in UserEdits(de.mergeView[editor].doc) :
       /\ de' = DiffEditor_userEdit(enterDiff(de), editor, changes)
       /\ op' = Op("DiffEditor.userEdit", {editor}, "", changes.insert, <<>>)
  /\ UNCHANGED <<host, ce>>

(***************************************************************************)
(* Specifications                                                          *)
(***************************************************************************)
Init ==
  /\ host \in {"code-editor", "diff-editor"}
  /\ ce = CodeEditor
  /\ de = DiffEditor
  /\ op = Op("constructor", {}, "", <<>>, <<>>)

\* content and form binding of either component
Next ==
  \/ CE_ngOnInit \/ CE_ngOnDestroy \/ CE_ngOnChanges({{"value"}})
  \/ CE_writeValue \/ CE_registerOnChange \/ CE_setValue \/ CE_userEdit
  \/ DE_ngOnInit \/ DE_ngOnDestroy
  \/ DE_ngOnChanges({{"originalValue"}, {"modifiedValue"},
                     {"originalValue", "modifiedValue"}})
  \/ DE_writeValue \/ DE_registerOnChange \/ DE_setValue \/ DE_userEdit

Spec == Init /\ [][Next]_vars

ConfigKeys ==
  {"disabled", "readonly", "theme", "placeholder", "indentWithTab", "indentUnit",
   "lineWrapping", "highlightWhitespace", "language", "setup", "extensions"}

LanguageRegistries == {<<>>, <<PlainText>>, <<JavaScript, JScript>>}

\* the number of code-editor inputs bound to other than their default, plus
\* the language loads still pending
Deviations(s) ==
  LET D(b) == IF b THEN 1 ELSE 0
  IN D(s.value # CodeEditor.value) + D(s.disabled # CodeEditor.disabled)
     + D(s.readonly # CodeEditor.readonly) + D(s.theme # CodeEditor.theme)
     + D(s.placeholder # CodeEditor.placeholder)
     + D(s.indentWithTab # CodeEditor.indentWithTab)
     + D(s.indentUnit # CodeEditor.indentUnit)
     + D(s.lineWrapping # CodeEditor.lineWrapping)
     + D(s.highlightWhitespace # CodeEditor.highlightWhitespace)
     + D(s.languages # CodeEditor.languages) + D(s.language # CodeEditor.language)
     + D(s.setup # CodeEditor.setup) + D(s.extensions # CodeEditor.extensions)
     + Len(s.loads)

\* configuration of either component through its inputs and the form binding,
\* before and after initialization: a notification reports one input, or
\* setup and extensions together; the page keeps the code-editor at most
\* MaxDeviations bindings and pending loads away from its defaults
NextConfig ==
  \/ CE_ngOnInit \/ CE_ngOnDestroy
  \/ (/\ CE_ngOnChanges({{k} : k \in ConfigKeys} \cup {{"setup", "extensions"}})
      /\ Deviations(ce') <= MaxDeviations)
  \/ (CE_languages(LanguageRegistries) /\ Deviations(ce') <= MaxDeviations)
  \/ CE_setDisabledState
  \/ CE_setLanguage_then
  \/ DE_ngOnInit \/ DE_ngOnDestroy
  \/ DE_ngOnChanges({{k} : k \in DiffOptions \cup {"disabled"}})
  \/ DE_setDisabledState

SpecConfig == Init /\ [][NextConfig]_vars

\* calls made before initialization: change notifications, the form binding
\* and direct calls of the public setters
PreInit == ce.view.status = "undefined" /\ de.mergeView.status = "undefined"

NextPreInit ==
  \/ CE_ngOnInit
  \/ CE_ngOnChanges({{"value"}, {"disabled"}, {"theme"}})
  \/ (PreInit /\ CE_languages(LanguageRegistries))
  \/ (PreInit /\ CE_writeValue)
  \/ (PreInit /\ CE_setDisabledState)
  \/ (PreInit /\ CE_setValue)
  \/ (PreInit /\ CE_setEditable)
  \/ (PreInit /\ CE_setReadonly)
  \/ (PreInit /\ CE_setTheme)
  \/ (PreInit /\ CE_setPlaceholder)
  \/ (PreInit /\ CE_setIndentWithTab)
  \/ (PreInit /\ CE_setIndentUnit)
  \/ (PreInit /\ CE_setLineWrapping)
  \/ (PreInit /\ CE_setHighlightWhitespace)
  \/ (PreInit /\ CE_setLanguage)
  \/ (PreInit /\ CE_setExtensions)
  \/ DE_ngOnInit
  \/ DE_ngOnChanges({{"originalValue"}, {"modifiedValue"}, {"disabled"}})
  \/ (PreInit /\ DE_writeValue)
  \/ (PreInit /\ DE_setDisabledState)
  \/ (PreInit /\ DE_setValue)
  \/ (PreInit /\ DE_setEditable)

SpecPreInit == Init /\ [][NextPreInit]_vars

\* the language of the code-editor
InitLanguage ==
  /\ host = "code-editor"
  /\ ce = CodeEditor
  /\ de = DiffEditor
  /\ op = Op("constructor", {}, "", <<>>, <<>>)

NextLanguage ==
  \/ CE_ngOnInit \/ CE_ngOnDestroy \/ CE_ngOnChanges({{"language"}})
  \/ CE_languages(LanguageRegistries) \/ CE_setLanguage \/ CE_setLanguage_then

SpecLanguage == InitLanguage /\ [][NextLanguage]_vars

\* _findLanguage applied to every registry and requested name
InitFind ==
  /\ host = "code-editor"
  /\ \E languages \in Registries : ce = [CodeEditor EXCEPT !.languages = languages]
  /\ de = DiffEditor
  /\ op = Op("constructor", {}, "", <<>>, <<>>)

CE__findLanguage ==
  /\ host = "code-editor"
  /\ \E name \in LanguageNames :
       /\ ce' = CodeEditor__findLanguage_console(enter(ce), name)
       /\ op' = Op("CodeEditor._findLanguage", {},
                   CodeEditor__findLanguage(ce.languages, name).support, name, <<>>)
  /\ UNCHANGED <<host, de>>

NextFind == CE__findLanguage

SpecFind == InitFind /\ [][NextFind]_vars

\* the number of diff-editor inputs bound to other than their default
DiffDeviations(s) ==
  LET D(b) == IF b THEN 1 ELSE 0
  IN D(s.originalValue # DiffEditor.originalValue)
     + D(s.modifiedValue # DiffEditor.modifiedValue)
     + D(s.orientation # DiffEditor.orientation)
     + D(s.revertControls # DiffEditor.revertControls)
     + D(s.renderRevertControl # DiffEditor.renderRevertControl)
     + D(s.highlightChanges # DiffEditor.highlightChanges)
     + D(s.gutter # DiffEditor.gutter) + D(s.disabled # DiffEditor.disabled)
     + D(s.collapseUnchanged # DiffEditor.collapseUnchanged)
     + D(s.diffConfig # DiffEditor.diffConfig)

\* input changes delivered before initialization, then ngOnInit; the page
\* binds at most MaxDeviations inputs to other than their default
NextInit ==
  \/ CE_ngOnInit
  \/ (/\ PreInit
      /\ CE_ngOnChanges({{k} : k \in ConfigKeys \cup {"value"}})
      /\ Deviations(ce') <= MaxDeviations)
  \/ DE_ngOnInit
  \/ (/\ PreInit
      /\ DE_ngOnChanges({{k} : k \in DiffOptions
                                 \cup {"originalValue", "modifiedValue", "disabled"}})
      /\ DiffDeviations(de') <= MaxDeviations)

SpecInit == Init /\ [][NextInit]_vars

\* direct calls of the public setters on the initialized components, with a
\* language registry bound from the start
InitSetters ==
  /\ host \in {"code-editor", "diff-editor"}
  /\ ce = [CodeEditor EXCEPT !.languages = <<JavaScript, JScript>>]
  /\ de = DiffEditor
  /\ op = Op("constructor", {}, "", <<>>, <<>>)

\* the number of slots (and the root set) holding other than what ngOnInit
\* gave them, plus the language loads still pending
Reconfigured(s) ==
  IF s.view.status = "undefined" THEN Len(s.loads)
  ELSE LET initial == CodeEditor_ngOnInit(CodeEditor).view
       IN Cardinality({c \in DOMAIN s.view.conf : s.view.conf[c] # initial.conf[c]})
          + (IF s.view.base # initial.base THEN 1 ELSE 0)
          + Len(s.loads)

\* at most MaxDeviations slots and pending loads are away from the initial
\* configuration at once
NextSetters ==
  \/ CE_ngOnInit
  \/ (CE_setEditable /\ Reconfigured(ce') <= MaxDeviations)
  \/ (CE_setReadonly /\ Reconfigured(ce') <= MaxDeviations)
  \/ (CE_setTheme /\ Reconfigured(ce') <= MaxDeviations)
  \/ (CE_setPlaceholder /\ Reconfigured(ce') <= MaxDeviations)
  \/ (CE_setIndentWithTab /\ Reconfigured(ce') <= MaxDeviations)
  \/ (CE_setIndentUnit /\ Reconfigured(ce') <= MaxDeviations)
  \/ (CE_setLineWrapping /\ Reconfigured(ce') <= MaxDeviations)
  \/ (CE_setHighlightWhitespace /\ Reconfigured(ce') <= MaxDeviations)
  \/ (CE_setExtensions /\ Reconfigured(ce') <= MaxDeviations)
  \/ (CE_setLanguage /\ Reconfigured(ce') <= MaxDeviations)
  \/ (CE_setLanguage_then /\ Reconfigured(ce') <= MaxDeviations)
  \/ DE_ngOnInit \/ DE_setEditable

SpecSetters == InitSetters /\ [][NextSetters]_vars

(***************************************************************************)
(* Claims                                                                  *)
(***************************************************************************)

\* C1: an external content write to the initialized code-editor (setValue,
\* writeValue, or a value input change) emits no change event and invokes
\* no on-change callback.
C1_ExternalWriteSilent ==
  (/\ host = "code-editor" /\ ce.view.status = "live"
   /\ \/ op.name \in {"CodeEditor.setValue", "CodeEditor.writeValue"}
      \/ op.name = "CodeEditor.ngOnChanges" /\ "value" \in op.keys)
  => ce.change = <<>> /\ ce.called = <<>>

\* C2: writeValue({original, modified}) and input-driven setValue on the
\* initialized diff-editor invoke no on-change callback and emit neither
\* originalValueChange nor modifiedValueChange.
C2_DiffExternalWriteSilent ==
  (/\ host = "diff-editor" /\ de.mergeView.status = "live"
   /\ \/ op.name = "DiffEditor.writeValue"
      \/ /\ op.name = "DiffEditor.ngOnChanges"
         /\ op.keys \cap {"originalValue", "modifiedValue"} # {})
  => /\ de.called = <<>>
     /\ de.originalValueChange = <<>>
     /\ de.modifiedValueChange = <<>>

\* C3: every user edit of the initialized code-editor invokes the on-change
\* callback exactly once and emits the change event exactly once, both with
\* the document as it is after the edit; the callback is the one most
\* recently passed to registerOnChange (registerOnChange installs its
\* argument and nothing else replaces the installed callback).
C3_UserEditNotifiesOnce ==
  [][/\ op'.name = "CodeEditor.userEdit"
        => /\ ce'.called = <<[fn |-> ce._onChange, value |-> ce'.view.doc]>>
           /\ ce'.change = <<ce'.view.doc>>
     /\ op'.name = "CodeEditor.registerOnChange" => ce'._onChange = op'.arg
     /\ op'.name # "CodeEditor.registerOnChange" => ce'._onChange = ce._onChange]_vars

C3_Witness ==
  /\ op.name = "CodeEditor.userEdit"
  /\ ce._onChange = "fn2"
  /\ ce.called = <<[fn |-> "fn2", value |-> <<"b">>]>>

\* C4: after any sequence of input changes, writeValue calls and user edits,
\* a user edit of one side of the diff-editor invokes the on-change callback
\* once with that side's new document and the other side's current document.
C4_DiffUserEditPair ==
  (host = "diff-editor" /\ op.name = "DiffEditor.userEdit")
  => de.called = <<[fn |-> de._onChange,
                    value |-> [original |-> de.mergeView.a.doc,
                               modified |-> de.mergeView.b.doc]]>>

C4_Witness ==
  /\ op.name = "DiffEditor.userEdit" /\ op.keys = {"a"}
  /\ de.mergeView.a.doc = <<"a">> /\ de.mergeView.b.doc = <<"b">>
  /\ de.called # <<>>

CodeEditorSetters ==
  {"CodeEditor.ngOnChanges", "CodeEditor.writeValue", "CodeEditor.setDisabledState",
   "CodeEditor.setValue", "CodeEditor.setEditable", "CodeEditor.setReadonly",
   "CodeEditor.setTheme", "CodeEditor.setPlaceholder", "CodeEditor.setIndentWithTab",
   "CodeEditor.setIndentUnit", "CodeEditor.setLineWrapping",
   "CodeEditor.setHighlightWhitespace", "CodeEditor.setLanguage",
   "CodeEditor.setExtensions"}

DiffEditorSetters ==
  {"DiffEditor.ngOnChanges", "DiffEditor.writeValue", "DiffEditor.setDisabledState",
   "DiffEditor.setValue", "DiffEditor.setEditable"}

\* C5: a setter called before initialization raises no failure and
\* dispatches to no editor instance, in the code-editor and the diff-editor.
C5_PreInitSettersNoOp ==
  /\ (host = "code-editor" /\ ce.view.status = "undefined"
      /\ op.name \in CodeEditorSetters)
     => ~ce.thrown /\ ce.dispatched = <<>>
  /\ (host = "diff-editor" /\ de.mergeView.status = "undefined"
      /\ op.name \in DiffEditorSetters)
     => ~de.thrown /\ de.dispatched = <<>>

\* C6: between initialization and teardown, the document read right after
\* setValue(X) is exactly X, in the code-editor and on each side of the
\* diff-editor, for every X and every prior content.
C6_SetValueRoundTrip ==
  /\ (host = "code-editor" /\ ce.view.status = "live"
      /\ op.name = "CodeEditor.setValue")
     => ce.view.doc = op.text
  /\ (host = "diff-editor" /\ de.mergeView.status = "live"
      /\ op.name = "DiffEditor.setValue")
     => \A editor \in op.keys : de.mergeView[editor].doc = op.text

C6_Witness ==
  /\ op.name = "CodeEditor.setValue" /\ ce.view.status = "live"
  /\ ce.view.doc = <<"b">>
  /\ ce.dispatched # <<>> /\ ce.dispatched[1].changes.to = 1

\* C7: setLanguage with the empty string or "plaintext" in any letter case
\* clears the language slot, logs no diagnostic and starts no load, whatever
\* the registry contains.
C7_PlaintextClears ==
  [][(/\ op'.name = "CodeEditor.setLanguage" /\ ce.view.status = "live"
      /\ toLowerCase(op'.text) \in {<<>>, plaintext})
     => /\ ce'.console = <<>>
        /\ ce'.loads = ce.loads
        /\ ce'.view.conf["_languageConf"] = <<>>]_vars

\* the languages of a registry that a requested name matches, by position
Matching(languages, name) ==
  {i \in 1..Len(languages) :
     \E alias \in {languages[i].name}
                  \cup {languages[i].alias[j] : j \in 1..Len(languages[i].alias)} :
       toLowerCase(alias) = toLowerCase(name)}

\* the language requested by the operation that ran last
Requested(o) == IF o.name = "CodeEditor.setLanguage" THEN o.text ELSE o.text2

\* C8: after initialization, setLanguage with a non-empty, non-plaintext name
\* that matches no registered language (or with an empty registry) raises no
\* failure, logs a diagnostic, starts no load and leaves the language slot,
\* like every other slot, as it was.
C8_UnknownLanguageIgnored ==
  [][(/\ \/ op'.name = "CodeEditor.setLanguage"
         \/ op'.name = "CodeEditor.ngOnChanges" /\ op'.keys = {"language"}
      /\ ce.view.status = "live"
      /\ Requested(op') \notin {<<>>, plaintext}
      /\ Matching(ce'.languages, Requested(op')) = {})
     => /\ ~ce'.thrown
        /\ ce'.console # <<>>
        /\ \A i \in 1..Len(ce'.console) : ce'.console[i].level \in {"error", "info"}
        /\ ce'.loads = ce.loads
        /\ ce'.view.conf = ce.view.conf
        /\ ce'.dispatched = <<>>]_vars

C8_Witness ==
  /\ op.name = "CodeEditor.setLanguage" /\ ce.view.status = "live"
  /\ op.text = <<"p","y">>
  /\ Len(ce.languages) > 0
  /\ ce.console # <<>>
  /\ ce.view.conf["_languageConf"] = <<Ext("language", "javascript")>>

\* C9: _findLanguage returns the first registered language, in registry
\* order, whose name or one of whose aliases equals the request when both
\* are lower-cased, and null (with a diagnostic) only when there is none.
C9_FindLanguage ==
  op.name = "CodeEditor._findLanguage"
  => LET matching == Matching(ce.languages, op.text)
     IN IF matching = {}
        THEN op.arg = "null" /\ ce.console # <<>>
        ELSE /\ \E i \in matching :
                  /\ \A j \in matching : i <= j
                  /\ op.arg = ce.languages[i].support
             /\ ce.console = <<>>

C9_Witness ==
  /\ op.name = "CodeEditor._findLanguage"
  /\ ce.languages = <<JavaScript, JScript>>
  /\ op.text = <<"J","S">>
  /\ op.arg = "javascript"

\* the compartment owning each input
Owner ==
  [k \in ConfigKeys \ {"setup", "extensions"} |->
     CASE k = "disabled" -> "_editableConf"
       [] k = "readonly" -> "_readonlyConf"
       [] k = "theme" -> "_themeConf"
       [] k = "placeholder" -> "_placeholderConf"
       [] k = "indentWithTab" -> "_indentWithTabConf"
       [] k = "indentUnit" -> "_indentUnitConf"
       [] k = "lineWrapping" -> "_lineWrappingConf"
       [] k = "highlightWhitespace" -> "_highlightWhitespaceConf"
       [] k = "language" -> "_languageConf"]

\* C10: after initialization a change notification for one configuration
\* field changes only the content of the slot owning that field: every other
\* slot and the document are as before; a change of setup or extensions
\* replaces the root extension set from the current inputs and resets no
\* slot.
C10_FrameEffect ==
  [][(op'.name = "CodeEditor.ngOnChanges" /\ ce.view.status = "live")
     => /\ ce'.view.doc = ce.view.doc
        /\ DOMAIN ce'.view.conf = DOMAIN ce.view.conf
        /\ \A c \in DOMAIN ce.view.conf :
             c \notin {Owner[k] : k \in op'.keys \cap DOMAIN Owner}
             => ce'.view.conf[c] = ce.view.conf[c]
        /\ IF op'.keys \cap {"setup", "extensions"} = {}
           THEN ce'.view.base = ce.view.base
           ELSE /\ ce'.view.base = CodeEditor__getAllExtensions(ce')
                /\ ce'.view.conf = ce.view.conf]_vars

C10_Witness ==
  /\ op.name = "CodeEditor.ngOnChanges" /\ op.keys = {"setup"}
  /\ ce.view.status = "live"
  /\ ce.view.conf["_themeConf"] = <<Ext("oneDark", "")>>

\* C11: after ngOnDestroy no dispatch is issued to the destroyed view, not
\* even by the completion of a language load that was pending at teardown.
C11_NoDispatchAfterDestroy ==
  (host = "code-editor" /\ ce.view.status = "destroyed") => ce.dispatched = <<>>

\* C12: after initialization, under disabled-input changes and
\* setDisabledState calls, the editable slot of the code-editor and of both
\* sides of the diff-editor holds editable = NOT disabled.
C12_EditableIsNotDisabled ==
  /\ (host = "code-editor" /\ ce.view.status # "undefined")
     => ce.view.conf["_editableConf"] = <<Ext("editable", B(~ce.disabled))>>
  /\ (host = "diff-editor" /\ de.mergeView.status # "undefined")
     => \A editor \in Editors :
          de.mergeView[editor].conf["_editableConf"]
            = <<Ext("editable", B(~de.disabled))>>

C12_Witness ==
  /\ op.name = "CodeEditor.setDisabledState" /\ ce.view.status = "live"
  /\ ce.disabled
  /\ ce.view.conf["_editableConf"] = <<Ext("editable", "false")>>
  /\ ce.dispatched # <<>>

\* C13: in every state after initialization the code-editor's value field
\* equals the live document (it is written back after user edits).
C13_ValueIsLiveDocument ==
  (host = "code-editor" /\ ce.view.status = "live") => ce.value = ce.view.doc

\* C14: every completion of a pending language load installs its language
\* into the language slot, whichever position its request had among the
\* pending ones; so once all have completed the slot holds the language
\* whose load completed last.
C14_LastCompletionWins ==
  [][(op'.name = "CodeEditor.setLanguage.then" /\ ce.view.status = "live")
     => /\ \E i \in 1..Len(ce.loads) :
             /\ op'.arg = ce.loads[i]
             /\ ce'.loads = SubSeq(ce.loads, 1, i - 1)
                            \o SubSeq(ce.loads, i + 1, Len(ce.loads))
        /\ ce'.view.conf["_languageConf"] = <<Ext("language", op'.arg)>>]_vars

C14_Witness ==
  /\ op.name = "CodeEditor.setLanguage.then" /\ ce.view.status = "live"
  /\ op.arg = "text"
  /\ ce.loads = <<"javascript">>
  /\ ce.view.conf["_languageConf"] = <<Ext("language", "text")>>

C18_SetValueOutsideHistory ==
  /\ (/\ host = "code-editor" /\ ce.view.status = "live"
      /\ op.name \in {"CodeEditor.setValue", "CodeEditor.writeValue"})
     => /\ Len(ce.dispatched) = 1
        /\ ce.dispatched[1].changes.from = 0
        /\ addToHistory \in ce.dispatched[1].annotations
  /\ (/\ host = "diff-editor" /\ de.mergeView.status = "live"
      /\ op.name = "DiffEditor.setValue")
     => /\ Len(de.dispatched) = 1
        /\ de.dispatched[1].tr.changes.from = 0
        /\ addToHistory \in de.dispatched[1].tr.annotations

\* C19: in every state after initialization, reached by value input changes,
\* writeValue calls, direct setValue calls and user edits, originalValue
\* equals document a and modifiedValue equals document b.
C19_DiffModelsAgree ==
  (host = "diff-editor" /\ de.mergeView.status = "live")
  => /\ de.originalValue = de.mergeView.a.doc
     /\ de.modifiedValue = de.mergeView.b.doc

C19_Witness ==
  /\ op.name = "DiffEditor.setValue" /\ op.keys = {"b"}
  /\ de.mergeView.status = "live"
  /\ de.modifiedValue = <<"a">> /\ de.mergeView.b.doc = <<"a">>
  /\ de.originalValue = <<"b">> /\ de.mergeView.a.doc = <<"b">>

\* C20: a setLanguage that clears the slot, or names an unregistered
\* language, while a load is pending clears the slot (or leaves it) at that
\* moment and cancels nothing; the pending language is installed when its
\* load completes, whatever has been requested since.
C20_ClearOvertaken ==
  [][ce.view.status = "live"
     => /\ (/\ \/ op'.name = "CodeEditor.setLanguage"
               \/ op'.name = "CodeEditor.ngOnChanges" /\ op'.keys = {"language"}
            /\ ce.loads # <<>>
            /\ \/ Requested(op') \in {<<>>, plaintext}
               \/ Matching(ce'.languages, Requested(op')) = {})
           => /\ ce'.loads = ce.loads
              /\ ce'.view.conf["_languageConf"]
                   = IF Requested(op') \in {<<>>, plaintext} THEN <<>>
                     ELSE ce.view.conf["_languageConf"]
        /\ op'.name = "CodeEditor.setLanguage.then"
           => /\ op'.arg \in {ce.loads[i] : i \in 1..Len(ce.loads)}
              /\ ce'.view.conf["_languageConf"] = <<Ext("language", op'.arg)>>]_vars

C20_Witness ==
  /\ op.name = "CodeEditor.ngOnChanges" /\ op.keys = {"language"}
  /\ op.text2 = plaintext
  /\ ce.view.status = "live"
  /\ ce.loads = <<"javascript">>
  /\ ce.view.conf["_languageConf"] = <<>>
  /\ ce.dispatched # <<>>

\* the slot contents that reflect the inputs of the code-editor
Snapshot(s) ==
  [c \in DOMAIN s.view.conf \ {"_languageConf"} |->
     CASE c = "_editableConf" -> <<Ext("editable", B(~s.disabled))>>
       [] c = "_readonlyConf" -> <<Ext("readOnly", B(s.readonly))>>
       [] c = "_themeConf" ->
            IF s.theme = "light" THEN <<>>
            ELSE IF s.theme = "dark" THEN <<Ext("oneDark", "")>>
            ELSE <<Ext("theme", s.theme)>>
       [] c = "_placeholderConf" ->
            IF s.placeholder = "" THEN <<>> ELSE <<Ext("placeholder", s.placeholder)>>
       [] c = "_indentWithTabConf" ->
            IF s.indentWithTab THEN <<Ext("keymap", "indentWithTab")>> ELSE <<>>
       [] c = "_indentUnitConf" ->
            IF s.indentUnit = "" THEN <<>> ELSE <<Ext("indentUnit", s.indentUnit)>>
       [] c = "_lineWrappingConf" ->
            IF s.lineWrapping THEN <<Ext("lineWrapping", "")>> ELSE <<>>
       [] c = "_highlightWhitespaceConf" ->
            IF s.highlightWhitespace THEN <<Ext("highlightWhitespace", "")>> ELSE <<>>]

\* C16: immediately after ngOnInit the document equals the current value
\* input and the editable, readonly, theme, placeholder, indentWithTab,
\* indentUnit, lineWrapping and highlightWhitespace slots reflect the current
\* inputs; in the diff-editor both documents, both editable slots and the
\* diff options reflect the current inputs; whatever input changes came
\* before initialization.
C16_InitUsesSnapshot ==
  /\ op.name = "CodeEditor.ngOnInit"
     => /\ ce.view.status = "live"
        /\ ce.view.doc = ce.value
        /\ DOMAIN ce.view.conf = {Compartments[i] : i \in 1..Len(Compartments)}
        /\ \A c \in DOMAIN Snapshot(ce) : ce.view.conf[c] = Snapshot(ce)[c]
  /\ op.name = "DiffEditor.ngOnInit"
     => /\ de.mergeView.status = "live"
        /\ de.mergeView.a.doc = de.originalValue
        /\ de.mergeView.b.doc = de.modifiedValue
        /\ \A editor \in Editors :
             de.mergeView[editor].conf["_editableConf"]
               = <<Ext("editable", B(~de.disabled))>>
        /\ de.mergeView.config =
             [orientation |-> de.orientation,
              revertControls |-> de.revertControls,
              renderRevertControl |-> de.renderRevertControl,
              highlightChanges |-> B(de.highlightChanges),
              gutter |-> B(de.gutter),
              collapseUnchanged |-> de.collapseUnchanged,
              diffConfig |-> de.diffConfig]

C16_Witness ==
  /\ op.name = "CodeEditor.ngOnInit"
  /\ ce.value = <<"a">> /\ ce.view.doc = <<"a">>
  /\ ce.theme = "dark" /\ ce.view.conf["_themeConf"] = <<Ext("oneDark", "")>>

\* the setters of one configuration field
FieldSetters ==
  {"CodeEditor.setEditable", "CodeEditor.setReadonly", "CodeEditor.setTheme",
   "CodeEditor.setPlaceholder", "CodeEditor.setIndentWithTab",
   "CodeEditor.setIndentUnit", "CodeEditor.setLineWrapping",
   "CodeEditor.setHighlightWhitespace", "CodeEditor.setLanguage",
   "CodeEditor.setExtensions", "DiffEditor.setEditable"}

\* C17: after initialization, a field setter (setLanguage only when it
\* clears) applied a second time in a row with the same value leaves every
\* slot, the root set and the document as the first application left them,
\* and emits no change event.
C17_SetterIdempotent ==
  [][(/\ op'.name \in FieldSetters
      /\ op'.name = op.name /\ op'.keys = op.keys
      /\ op'.arg = op.arg /\ op'.text = op.text
      /\ op'.name = "CodeEditor.setLanguage" => op'.text \in {<<>>, plaintext}
      /\ host = "code-editor" => ce.view.status = "live"
      /\ host = "diff-editor" => de.mergeView.status = "live")
     => /\ ce'.view = ce.view /\ ce'.loads = ce.loads
        /\ ce'.change = <<>> /\ ce'.called = <<>>
        /\ de'.mergeView = de.mergeView
        /\ de'.called = <<>>
        /\ de'.originalValueChange = <<>> /\ de'.modifiedValueChange = <<>>
        /\ host = "code-editor" => ce'.dispatched # <<>>
        /\ host = "diff-editor" => de'.dispatched # <<>>]_vars

C17_Witness ==
  /\ op.name = "CodeEditor.setExtensions" /\ op.arg = "minimal" /\ op.keys = {"extA"}
  /\ ce.view.status = "live"
  /\ ce.view.base = CodeEditor__getAllExtensions(
                      [ce EXCEPT !.setup = "minimal",
                                 !.extensions = <<Ext("custom", "extA")>>])
  /\ ce.view.conf["_languageConf"] = <<Ext("language", "javascript")>>

\* C21: a writeValue that arrives before ngOnInit is discarded: it changes
\* nothing in the component (in the diff-editor the two models included),
\* raises nothing and dispatches nothing, so nothing can replay it; the
\* document the later ngOnInit creates equals the value input (the
\* originalValue / modifiedValue models) as it is at that time.
C21_PreInitWriteDropped ==
  [][/\ (op'.name = "CodeEditor.writeValue" /\ ce.view.status = "undefined")
        => ce' = enter(ce)
     /\ (op'.name = "DiffEditor.writeValue" /\ de.mergeView.status = "undefined")
        => de' = enterDiff(de)
     /\ op'.name = "CodeEditor.ngOnInit"
        => ce'.value = ce.value /\ ce'.view.doc = ce.value
     /\ op'.name = "DiffEditor.ngOnInit"
        => /\ de'.originalValue = de.originalValue
           /\ de'.modifiedValue = de.modifiedValue
           /\ de'.mergeView.a.doc = de.originalValue
           /\ de'.mergeView.b.doc = de.modifiedValue]_vars

C21_Witness ==
  /\ op.name = "CodeEditor.writeValue" /\ op.text = <<"a">>
  /\ ce.view.status = "undefined"
  /\ ce.value = <<"b">>
  /\ ~ce.thrown /\ ce.dispatched = <<>>

====
